---- MODULE Spec2Model ----
(***************************************************************************)
(* Rolling window iterators: the window engine RollingObject               *)
(* (rolling/base.py) driving the two strategies PolynomialHash             *)
(* (rolling/hash.py) and Apply (rolling/apply.py).                         *)
(*                                                                         *)
(* The engine is translated from rolling/base.py.  The two strategy        *)
(* modules are not part of the sources at hand; their operations are       *)
(* written from sections 4.2-4.4 of the specification.                     *)
(***************************************************************************)
EXTENDS Integers, Sequences, FiniteSets, TLC

\* ------------------------------------------------------------------ bounds

\* longest caller-supplied iterable
MaxLen == 3

\* largest valid window_size passed to a constructor
MaxWin == 3

\* element values of the iterable (negative ones included)
Elems == {-8, 3}

\* the (base, mod) keyword arguments a program passes to its constructors
Params == {[base |-> 101, mod |-> 7919], [base |-> 3, mod |-> 7]}

\* the variables holding an engine (or the exception of its constructor call)
Slots == {1, 2}

\* the concrete subclasses of RollingObject
Classes == {"PolynomialHash", "Apply"}

\* window_type keyword arguments: the two recognised ones and an unknown one
WindowTypeArgs == {"fixed", "variable", "expanding"}

\* an int argument n, and the float argument num/2
IntArg(n) == [type |-> "int", num |-> n, den |-> 1]
FloatArg(num) == [type |-> "float", num |-> num, den |-> 2]

\* window_size arguments: -3, 0, 1..MaxWin and 2.5
WindowSizeArgs == {IntArg(n) : n \in {-3, 0} \cup (1..MaxWin)} \cup {FloatArg(5)}

ValidWindowSizeArgs == {IntArg(n) : n \in 1..MaxWin}

Inputs == UNION {[1..n -> Elems] : n \in 0..MaxLen}

\* ------------------------------------------------------------------- state

VARIABLES
    iterable,   \* the caller's finite sequence, handed to every constructor
    kwargs,     \* the caller's base and mod, handed to every constructor
    cls_init,   \* cls.__init__ of each concrete class, as bound by __new__
    cls_next,   \* cls.__next__ of each concrete class, as bound by __new__
    eng         \* per slot: the engine object, or the outcome of the failed call

vars == <<iterable, kwargs, cls_init, cls_next, eng>>

\* A slot before its constructor call.  Fields:
\*   status       "none" | "raised" | "ok"
\*   error        the exception of a failed constructor call
\*   args         the window_size / window_type the constructor was called with
\*   window_type, window_size, iterator, filled   attributes set by __new__
\*                (iterator: number of elements taken from the iterable so far;
\*                 filled: "absent" on instances that have no _filled attribute)
\*   base, mod, buffer, hash, obs   strategy state set by __init__
\*   out          values returned by __next__ so far
\*   last         outcome of the latest __next__ call
\*   calls        strategy operations called by the latest __next__ call
\*   again        __next__ was called after it had raised StopIteration
\*   seen         the values of the (at most two latest) reads of current_value
\*                made since the latest __next__ call
NoEngine ==
    [status |-> "none", error |-> "none", cls |-> "none",
     args |-> [window_size |-> IntArg(0), window_type |-> "none"],
     window_type |-> "none", window_size |-> 0, iterator |-> 0,
     filled |-> "absent", base |-> 0, mod |-> 0,
     buffer |-> <<>>, hash |-> 0, obs |-> 0,
     out |-> <<>>, last |-> "none", calls |-> <<>>, again |-> FALSE,
     seen |-> <<>>]

\* ------------------------------------------------- modular hash helper

\* base^n mod m by square-and-multiply
RECURSIVE mod_pow(_, _, _)
mod_pow(b, n, m) ==
    IF n = 0 THEN 1 % m
    ELSE LET h == mod_pow(b, n \div 2, m)
             sq == (h * h) % m
         IN IF n % 2 = 1 THEN (sq * (b % m)) % m ELSE sq

\* left-to-right Horner hash of a finite sequence
RECURSIVE horner(_, _, _, _)
horner(seq, h, b, m) ==
    IF seq = <<>> THEN h
    ELSE horner(Tail(seq), (h * b + Head(seq)) % m, b, m)

polynomial_hash_sequence(seq, b, m) == horner(seq, 0, b, m)

\* --------------------------------------------------- strategy operations
\* Each returns [self |-> the instance afterwards, exc |-> the exception raised].

Done(self) == [self |-> self, exc |-> "none"]
Raised(self, exc) == [self |-> self, exc |-> exc]

HasNext(self) == self.iterator < Len(iterable)
NextElem(self) == iterable[self.iterator + 1]

\* H after the oldest of n elements, x0, has left the window
hash_without_oldest(self, x0, n) ==
    (((self.hash - x0 * mod_pow(self.base, n - 1, self.mod)) % self.mod)
        + self.mod) % self.mod

\* variant: the accumulator is not reduced after the new value is folded in
add_new_unreduced(self) ==
    IF ~HasNext(self) THEN Raised(self, "StopIteration")
    ELSE LET x == NextElem(self)
         IN Done([self EXCEPT !.iterator = @ + 1,
                              !.buffer = Append(@, x),
                              !.hash = IF self.cls = "PolynomialHash"
                                       THEN @ * self.base + x
                                       ELSE @,
                              !.obs = @ + 1])

_add_new(self) ==
    IF ~HasNext(self) THEN Raised(self, "StopIteration")
    ELSE LET x == NextElem(self)
         IN Done([self EXCEPT !.iterator = @ + 1,
                              !.buffer = Append(@, x),
                              !.hash = IF self.cls = "PolynomialHash"
                                       THEN (@ * self.base + x) % self.mod
                                       ELSE @,
                              !.obs = @ + 1])

_remove_old(self) ==
    IF self.buffer = <<>> THEN Raised(self, "IndexError")
    ELSE Done([self EXCEPT !.buffer = Tail(@),
                           !.hash = IF self.cls = "PolynomialHash"
                                    THEN hash_without_oldest(self, Head(self.buffer),
                                                             Len(self.buffer))
                                    ELSE @,
                           !.obs = @ - 1])

\* variant: the oldest value is evicted before the source is asked
update_evict_first(self) ==
    IF self.buffer = <<>>
    THEN Raised(self, IF HasNext(self) THEN "IndexError" ELSE "StopIteration")
    ELSE LET x0 == Head(self.buffer)
             evicted == [self EXCEPT !.buffer = Tail(@),
                            !.hash = IF self.cls = "PolynomialHash"
                                     THEN hash_without_oldest(self, x0, self.window_size)
                                     ELSE @]
         IN IF ~HasNext(self) THEN Raised(evicted, "StopIteration")
            ELSE LET x == NextElem(self)
                 IN Done([evicted EXCEPT !.iterator = @ + 1,
                                         !.buffer = Append(@, x),
                                         !.hash = IF self.cls = "PolynomialHash"
                                                  THEN (@ * self.base + x) % self.mod
                                                  ELSE @])

_update(self) ==
    IF ~HasNext(self) THEN Raised(self, "StopIteration")
    ELSE IF self.buffer = <<>>
         THEN Raised([self EXCEPT !.iterator = @ + 1], "IndexError")
    ELSE LET x == NextElem(self)
         IN Done([self EXCEPT !.iterator = @ + 1,
                              !.buffer = Append(Tail(@), x),
                              !.hash = IF self.cls = "PolynomialHash"
                                       THEN (hash_without_oldest(self, Head(self.buffer),
                                                                 self.window_size)
                                             * self.base + x) % self.mod
                                       ELSE @])

current_value(self) ==
    IF self.cls = "PolynomialHash" THEN self.hash
    ELSE polynomial_hash_sequence(self.buffer, self.base, self.mod)

\* variant: reading the value of an Apply window consumes its oldest element
current_value_read_evicts(self) ==
    [self |-> IF self.cls = "Apply" /\ self.buffer # <<>>
              THEN [self EXCEPT !.buffer = Tail(@), !.obs = @ - 1] ELSE self,
     value |-> current_value(self)]

\* the caller's read of the current_value property: the value, and the instance
\* as the read leaves it
current_value_read(self) == [self |-> self, value |-> current_value(self)]

\* the first window_size - 1 elements are loaded behind a zero pad, so that the
\* first update completes the first full window (what the fixed-window property
\* of section 8 requires of an engine whose every step is one update)
_init_fixed(self, p) ==
    LET n == IF Len(iterable) < self.window_size - 1
             THEN Len(iterable) ELSE self.window_size - 1
        head == SubSeq(iterable, 1, n)
    IN [self EXCEPT !.base = p.base, !.mod = p.mod,
                    !.iterator = n,
                    !.buffer = <<0>> \o head,
                    !.hash = IF self.cls = "PolynomialHash"
                             THEN polynomial_hash_sequence(head, p.base, p.mod)
                             ELSE 0]

_init_variable(self, p) ==
    [self EXCEPT !.base = p.base, !.mod = p.mod,
                 !.buffer = <<>>, !.hash = 0, !.obs = 0]

\* ------------------------------------------------------------ the engine

\* variant: the sign test lets zero through
validate_window_size_zero(k) ==
    IF k.type # "int" THEN "TypeError"
    ELSE IF k.num < 0 THEN "ValueError"
    ELSE "ok"

_validate_window_size(k) ==
    IF k.type # "int" THEN "TypeError"
    ELSE IF k.num <= 0 THEN "ValueError"
    ELSE "ok"

\* __next__ returned a value
Value(self, calls) ==
    [self EXCEPT !.out = Append(@, current_value(self)),
                 !.last = "Value", !.calls = calls, !.seen = <<>>]

\* __next__ raised: StopIteration is the end of the iteration
Raise(self, exc, calls) ==
    [self EXCEPT !.last = IF exc = "StopIteration" THEN "Exhausted" ELSE exc,
                 !.calls = calls, !.seen = <<>>,
                 !.again = @ \/ self.last = "Exhausted"]

\* variant: the value is read before the window is updated
next_fixed_stale(self) ==
    LET r == _update(self)
    IN IF r.exc = "none"
       THEN [r.self EXCEPT !.out = Append(@, current_value(self)),
                           !.last = "Value", !.calls = <<"update">>, !.seen = <<>>]
       ELSE Raise(r.self, r.exc, <<"update">>)

\* variant: a fixed window is drained when the source runs out
next_fixed_drain(self) ==
    LET r == _update(self)
    IN IF r.exc = "none" THEN Value(r.self, <<"update">>)
       ELSE IF r.exc = "StopIteration" /\ Len(r.self.buffer) > 1
       THEN LET q == _remove_old(r.self)
            IN Value(q.self, <<"update", "remove_old">>)
       ELSE Raise(r.self, r.exc, <<"update">>)

\* variant: the window is updated twice per step
next_fixed_double_update(self) ==
    LET r == _update(self)
        t == _update(r.self)
    IN IF r.exc # "none" THEN Raise(r.self, r.exc, <<"update">>)
       ELSE IF t.exc = "none" THEN Value(t.self, <<"update">>)
       ELSE Value(r.self, <<"update">>)

_next_fixed(self) ==
    LET r == _update(self)
    IN IF r.exc = "none" THEN Value(r.self, <<"update">>)
       ELSE Raise(r.self, r.exc, <<"update">>)

\* variant: filling stops one element short of window_size
next_variable_short_fill(self) ==
    IF self.filled = "absent" THEN Raise(self, "AttributeError", <<>>)
    ELSE IF self.filled = "False" /\ self.obs < self.window_size - 1
    THEN LET r == _add_new(self)
             s == IF r.self.obs = r.self.window_size
                  THEN [r.self EXCEPT !.filled = "True"] ELSE r.self
         IN IF r.exc = "none" THEN Value(s, <<"add_new">>)
            ELSE Raise(r.self, r.exc, <<"add_new">>)
    ELSE LET r == _update(self)
         IN IF r.exc = "none" THEN Value(r.self, <<"update">>)
            ELSE IF r.exc # "StopIteration" THEN Raise(r.self, r.exc, <<"update">>)
            ELSE IF r.self.obs = 1 THEN Raise(r.self, "StopIteration", <<"update">>)
            ELSE LET q == _remove_old(r.self)
                 IN IF q.exc = "none" THEN Value(q.self, <<"update", "remove_old">>)
                    ELSE Raise(q.self, q.exc, <<"update", "remove_old">>)

\* variant: the oldest value is removed before the size is tested
next_variable_remove_first(self) ==
    IF self.filled = "absent" THEN Raise(self, "AttributeError", <<>>)
    ELSE IF self.filled = "False" /\ self.obs < self.window_size
    THEN LET r == _add_new(self)
             s == IF r.self.obs = r.self.window_size
                  THEN [r.self EXCEPT !.filled = "True"] ELSE r.self
         IN IF r.exc = "none" THEN Value(s, <<"add_new">>)
            ELSE Raise(r.self, r.exc, <<"add_new">>)
    ELSE LET r == _update(self)
         IN IF r.exc = "none" THEN Value(r.self, <<"update">>)
            ELSE IF r.exc # "StopIteration" THEN Raise(r.self, r.exc, <<"update">>)
            ELSE LET q == _remove_old(r.self)
                 IN IF q.exc # "none" THEN Raise(q.self, q.exc, <<"update", "remove_old">>)
                    ELSE IF q.self.obs = 1
                    THEN Raise(q.self, "StopIteration", <<"update", "remove_old">>)
                    ELSE Value(q.self, <<"update", "remove_old">>)

\* variant: the filled flag is cleared when draining starts
next_variable_unfill(self) ==
    IF self.filled = "absent" THEN Raise(self, "AttributeError", <<>>)
    ELSE IF self.filled = "False" /\ self.obs < self.window_size
    THEN LET r == _add_new(self)
             s == IF r.self.obs = r.self.window_size
                  THEN [r.self EXCEPT !.filled = "True"] ELSE r.self
         IN IF r.exc = "none" THEN Value(s, <<"add_new">>)
            ELSE Raise(r.self, r.exc, <<"add_new">>)
    ELSE LET r == _update(self)
         IN IF r.exc = "none" THEN Value(r.self, <<"update">>)
            ELSE IF r.exc # "StopIteration" THEN Raise(r.self, r.exc, <<"update">>)
            ELSE IF r.self.obs = 1 THEN Raise(r.self, "StopIteration", <<"update">>)
            ELSE LET q == _remove_old([r.self EXCEPT !.filled = "False"])
                 IN IF q.exc = "none" THEN Value(q.self, <<"update", "remove_old">>)
                    ELSE Raise(q.self, q.exc, <<"update", "remove_old">>)

\* variant: the window is drained when the source ends before it has filled
next_variable_drain_short(self) ==
    IF self.filled = "absent" THEN Raise(self, "AttributeError", <<>>)
    ELSE IF self.filled = "False" /\ self.obs < self.window_size
    THEN LET r == _add_new(self)
             s == IF r.self.obs = r.self.window_size
                  THEN [r.self EXCEPT !.filled = "True"] ELSE r.self
         IN IF r.exc = "none" THEN Value(s, <<"add_new">>)
            ELSE IF r.exc # "StopIteration" \/ r.self.obs <= 1
            THEN Raise(r.self, r.exc, <<"add_new">>)
            ELSE LET q == _remove_old(r.self)
                 IN IF q.exc = "none" THEN Value(q.self, <<"add_new", "remove_old">>)
                    ELSE Raise(q.self, q.exc, <<"add_new", "remove_old">>)
    ELSE LET r == _update(self)
         IN IF r.exc = "none" THEN Value(r.self, <<"update">>)
            ELSE IF r.exc # "StopIteration" THEN Raise(r.self, r.exc, <<"update">>)
            ELSE IF r.self.obs = 1 THEN Raise(r.self, "StopIteration", <<"update">>)
            ELSE LET q == _remove_old(r.self)
                 IN IF q.exc = "none" THEN Value(q.self, <<"update", "remove_old">>)
                    ELSE Raise(q.self, q.exc, <<"update", "remove_old">>)

\* variant: the window is drained down to no element at all
next_variable_drain_to_zero(self) ==
    IF self.filled = "absent" THEN Raise(self, "AttributeError", <<>>)
    ELSE IF self.filled = "False" /\ self.obs < self.window_size
    THEN LET r == _add_new(self)
             s == IF r.self.obs = r.self.window_size
                  THEN [r.self EXCEPT !.filled = "True"] ELSE r.self
         IN IF r.exc = "none" THEN Value(s, <<"add_new">>)
            ELSE Raise(r.self, r.exc, <<"add_new">>)
    ELSE LET r == _update(self)
         IN IF r.exc = "none" THEN Value(r.self, <<"update">>)
            ELSE IF r.exc # "StopIteration" THEN Raise(r.self, r.exc, <<"update">>)
            ELSE IF r.self.obs = 0 THEN Raise(r.self, "StopIteration", <<"update">>)
            ELSE LET q == _remove_old(r.self)
                 IN IF q.exc = "none" THEN Value(q.self, <<"update", "remove_old">>)
                    ELSE Raise(q.self, q.exc, <<"update", "remove_old">>)

\* variant: the window is marked filled one element before window_size
next_variable_early_filled(self) ==
    IF self.filled = "absent" THEN Raise(self, "AttributeError", <<>>)
    ELSE IF self.filled = "False" /\ self.obs < self.window_size
    THEN LET r == _add_new(self)
             s == IF r.self.obs = r.self.window_size - 1
                  THEN [r.self EXCEPT !.filled = "True"] ELSE r.self
         IN IF r.exc = "none" THEN Value(s, <<"add_new">>)
            ELSE Raise(r.self, r.exc, <<"add_new">>)
    ELSE LET r == _update(self)
         IN IF r.exc = "none" THEN Value(r.self, <<"update">>)
            ELSE IF r.exc # "StopIteration" THEN Raise(r.self, r.exc, <<"update">>)
            ELSE IF r.self.obs = 1 THEN Raise(r.self, "StopIteration", <<"update">>)
            ELSE LET q == _remove_old(r.self)
                 IN IF q.exc = "none" THEN Value(q.self, <<"update", "remove_old">>)
                    ELSE Raise(q.self, q.exc, <<"update", "remove_old">>)

_next_variable(self) ==
    IF self.filled = "absent" THEN Raise(self, "AttributeError", <<>>)
    ELSE IF self.filled = "False" /\ self.obs < self.window_size
    THEN LET r == _add_new(self)
             s == IF r.self.obs = r.self.window_size
                  THEN [r.self EXCEPT !.filled = "True"] ELSE r.self
         IN IF r.exc = "none" THEN Value(s, <<"add_new">>)
            ELSE Raise(r.self, r.exc, <<"add_new">>)
    ELSE LET r == _update(self)
         IN IF r.exc = "none" THEN Value(r.self, <<"update">>)
            ELSE IF r.exc # "StopIteration" THEN Raise(r.self, r.exc, <<"update">>)
            ELSE IF r.self.obs = 1 THEN Raise(r.self, "StopIteration", <<"update">>)
            ELSE LET q == _remove_old(r.self)
                 IN IF q.exc = "none" THEN Value(q.self, <<"update", "remove_old">>)
                    ELSE Raise(q.self, q.exc, <<"update", "remove_old">>)

\* RollingObject.__new__ followed, when it returns, by the __init__ it bound
\* on the class
Construct(e, cls, window_size, window_type, p) ==
    /\ eng[e].status = "none"
    /\ LET called == [NoEngine EXCEPT !.cls = cls,
                         !.args = [window_size |-> window_size,
                                   window_type |-> window_type]]
           valid == _validate_window_size(window_size)
           bind == window_type \in {"fixed", "variable"}
           self == [called EXCEPT !.status = "ok",
                       !.window_type = window_type,
                       !.window_size = window_size.num,
                       !.filled = IF window_type = "variable" THEN "False" ELSE "absent"]
       IN /\ cls_init' = IF bind THEN [cls_init EXCEPT ![cls] = window_type] ELSE cls_init
          /\ cls_next' = IF bind THEN [cls_next EXCEPT ![cls] = window_type] ELSE cls_next
          /\ eng' = [eng EXCEPT ![e] =
                IF ~bind THEN [called EXCEPT !.status = "raised", !.error = "ValueError"]
                ELSE IF valid # "ok"
                THEN [called EXCEPT !.status = "raised", !.error = valid]
                ELSE IF cls_init'[cls] = "fixed" THEN _init_fixed(self, p)
                ELSE _init_variable(self, p)]
    /\ UNCHANGED <<iterable, kwargs>>

\* next(engine): the __next__ currently bound on the engine's class
Advance(e) ==
    /\ eng[e].status = "ok"
    /\ eng' = [eng EXCEPT ![e] =
            IF cls_next[eng[e].cls] = "fixed" THEN _next_fixed(eng[e])
            ELSE _next_variable(eng[e])]
    /\ UNCHANGED <<iterable, kwargs, cls_init, cls_next>>

\* engine.current_value read by the caller between two __next__ calls
ReadValue(e) ==
    /\ eng[e].status = "ok"
    /\ LET r == current_value_read(eng[e])
           seen == eng[e].seen
       IN eng' = [eng EXCEPT ![e] =
              [r.self EXCEPT !.seen = IF Len(seen) < 2 THEN Append(seen, r.value)
                                      ELSE <<seen[2], r.value>>]]
    /\ UNCHANGED <<iterable, kwargs, cls_init, cls_next>>

\* ------------------------------------------------------- specifications

Init ==
    /\ iterable \in Inputs
    /\ kwargs \in Params
    /\ cls_init = [c \in Classes |-> "abstract"]
    /\ cls_next = [c \in Classes |-> "abstract"]
    /\ eng = [e \in Slots |-> NoEngine]

\* any program: constructor calls with arbitrary arguments, assigned to the
\* slots in order, and next() on any engine
AnyConstruct ==
    \E e \in Slots, cls \in Classes, k \in WindowSizeArgs, wt \in WindowTypeArgs :
        /\ \A o \in Slots : o < e => eng[o].status # "none"
        /\ Construct(e, cls, k, wt, kwargs)

AnyAdvance == \E e \in Slots : Advance(e)

Next == AnyConstruct \/ AnyAdvance

Spec == Init /\ [][Next]_vars

\* test_rolling_polynomial_hash: one PolynomialHash and one Apply engine over the
\* same sequence, window_size and window_type
TestClass == [e \in Slots |-> IF e = 1 THEN "PolynomialHash" ELSE "Apply"]

SameParameters(e, k, wt) ==
    \A o \in Slots \ {e} :
        eng[o].status = "ok" =>
            /\ eng[o].window_size = k.num
            /\ eng[o].window_type = wt

TestConstruct ==
    \E e \in Slots, k \in ValidWindowSizeArgs, wt \in {"fixed", "variable"} :
        /\ SameParameters(e, k, wt)
        /\ Construct(e, TestClass[e], k, wt, kwargs)

TestNext == TestConstruct \/ AnyAdvance

SpecTest == Init /\ [][TestNext]_vars

\* the same program, reading current_value between the __next__ calls
AnyRead == \E e \in Slots : ReadValue(e)

ReadNext == TestConstruct \/ AnyAdvance \/ AnyRead

SpecRead == Init /\ [][ReadNext]_vars

\* the same program, calling next() on each engine again and again
SpecTestFair == SpecTest /\ \A e \in Slots : WF_vars(Advance(e))

\* ----------------------------------------------------------- properties

Engines == {e \in Slots : eng[e].status = "ok"}

\* the direct hash of the window of k elements ending at element j of the iterable
WindowHash(self, j, k) ==
    polynomial_hash_sequence(SubSeq(iterable, j - k + 1, j), self.base, self.mod)

\* C1: a fixed window over an input of at least window_size elements returns
\* len(input) - window_size + 1 values before StopIteration, the i-th being the
\* aggregate of input[i .. i + window_size - 1].
FixedWindowValues ==
    \A e \in Engines :
        LET self == eng[e]
            n == Len(iterable) - self.window_size + 1
        IN (self.window_type = "fixed" /\ n >= 1) =>
            /\ self.last \in {"none", "Value", "Exhausted"}
            /\ Len(self.out) <= n
            /\ self.last = "Exhausted" => Len(self.out) = n
            /\ \A i \in 1..Len(self.out) :
                    self.out[i] = WindowHash(self, i + self.window_size - 1,
                                             self.window_size)

FixedWindowDone ==
    \E e \in Engines :
        /\ eng[e].window_type = "fixed" /\ eng[e].window_size >= 2
        /\ eng[e].last = "Exhausted" /\ Len(eng[e].out) >= 2

\* C2: a variable window returns len(input) + window_size - 1 values before
\* StopIteration when the input is not empty, and none when it is empty.
VariableWindowCount ==
    \A e \in Engines :
        (eng[e].window_type = "variable" /\ eng[e].last = "Exhausted") =>
            Len(eng[e].out) = IF Len(iterable) >= 1
                              THEN Len(iterable) + eng[e].window_size - 1
                              ELSE 0

\* C3: the PolynomialHash engine and the Apply engine over the direct Horner
\* hash return the same values, and the running hash is the direct hash of the
\* elements in the window at every position.
HashMatchesApply ==
    /\ \A e \in Engines :
            eng[e].cls = "PolynomialHash" =>
                eng[e].hash = polynomial_hash_sequence(eng[e].buffer, eng[e].base,
                                                       eng[e].mod)
    /\ \A e, o \in Engines :
            (eng[e].cls = "PolynomialHash" /\ eng[o].cls = "Apply") =>
                /\ \A i \in 1..Len(eng[e].out) :
                        i <= Len(eng[o].out) => eng[e].out[i] = eng[o].out[i]
                /\ (eng[e].last = "Exhausted" /\ eng[o].last = "Exhausted")
                        => eng[e].out = eng[o].out

BothEnginesDone ==
    \E e, o \in Engines :
        /\ eng[e].cls = "PolynomialHash" /\ eng[o].cls = "Apply"
        /\ eng[e].window_type = "variable" /\ eng[e].window_size >= 2
        /\ eng[e].last = "Exhausted" /\ eng[o].last = "Exhausted"
        /\ Len(eng[e].out) >= 4
        /\ \E i \in 1..Len(iterable) : iterable[i] < 0

\* C4: once __next__ has raised StopIteration, every later __next__ on the same
\* engine raises StopIteration again and changes nothing of the engine.
ExhaustedIsAbsorbing ==
    [][\A e \in Slots :
          (eng[e].status = "ok" /\ eng[e].last = "Exhausted") =>
              /\ eng'[e].last = "Exhausted"
              /\ eng'[e] = [eng[e] EXCEPT !.again = eng'[e].again,
                                          !.calls = eng'[e].calls]]_vars

ExhaustedAgain ==
    \E e, o \in Engines :
        /\ eng[e].window_type = "variable" /\ eng[e].filled = "True"
        /\ eng[e].again
        /\ eng[o].window_type = "variable" /\ eng[o].again

\* C5: the constructor raises when window_size is not a positive integer or
\* window_type is not recognised, and returns an engine otherwise.
IsPositiveInteger(k) == k.den = 1 /\ k.num >= 1

ConstructValidates ==
    \A e \in Slots :
        eng[e].status # "none" =>
            /\ eng[e].status = "ok" <=>
                    /\ IsPositiveInteger(eng[e].args.window_size)
                    /\ eng[e].args.window_type \in {"fixed", "variable"}
            /\ eng[e].status = "raised" => eng[e].error \in {"ValueError", "TypeError"}
            /\ eng[e].status = "ok" =>
                    /\ eng[e].window_size = eng[e].args.window_size.num
                    /\ eng[e].window_type = eng[e].args.window_type

ConstructRaisedAndReturned ==
    \E e, o \in Slots :
        /\ eng[e].status = "raised" /\ eng[e].error = "TypeError"
        /\ eng[o].status = "ok"

\* C6: a constructor call that raises has consumed nothing of the source, has
\* produced no engine or strategy state, and has changed nothing that other code
\* can observe, the __init__ / __next__ bound on the class included.
FailedConstructChangesNothing ==
    [][\A e \in Slots :
          (eng[e].status = "none" /\ eng'[e].status = "raised") =>
              /\ cls_init' = cls_init /\ cls_next' = cls_next
              /\ iterable' = iterable /\ kwargs' = kwargs
              /\ \A o \in Slots \ {e} : eng'[o] = eng[o]
              /\ eng'[e] = [NoEngine EXCEPT !.status = "raised",
                                            !.error = eng'[e].error,
                                            !.cls = eng'[e].cls,
                                            !.args = eng'[e].args]]_vars

\* C7: in the filling phase of a variable window, __next__ raises StopIteration
\* only when no element has been observed yet.
FillingStopsOnlyWhenEmpty ==
    \A e \in Engines :
        (eng[e].window_type = "variable" /\ eng[e].filled = "False"
            /\ eng[e].last = "Exhausted") => eng[e].obs = 0

\* C8: an update or add_new that finds the source exhausted leaves buffer, hash,
\* size and iterator as they were, so that the remove_old and current_value that
\* follow a failed update act on the unmodified window.
FailedUpdateKeepsWindow ==
    [][\A e \in Slots :
          (eng[e].status = "ok" /\ eng'[e] # eng[e]) =>
              LET self == eng[e]
                  after == eng'[e]
                  kept == /\ after.buffer = self.buffer /\ after.hash = self.hash
                          /\ after.obs = self.obs /\ after.iterator = self.iterator
                          /\ after.out = self.out
              IN /\ after.last = "Exhausted" => kept
                 /\ after.calls = <<"update", "remove_old">> =>
                        /\ after.iterator = self.iterator
                        /\ after.buffer = Tail(self.buffer)
                        /\ after.obs = self.obs - 1
                        /\ after.out = Append(self.out,
                              polynomial_hash_sequence(Tail(self.buffer),
                                                       self.base, self.mod))]_vars

DrainedAfterFailedUpdate ==
    \E e, o \in Engines :
        /\ eng[e].calls = <<"update", "remove_old">> /\ eng[e].last = "Value"
        /\ eng[e].cls = "PolynomialHash" /\ eng[e].obs >= 2
        /\ eng[o].cls = "Apply" /\ eng[o].last = "Exhausted" /\ eng[o].filled = "True"

\* C9: engines share nothing: constructing or advancing one engine leaves every
\* other engine advancing according to its own window_type.
EnginesShareNothing ==
    (\A e \in Slots : eng[e].status # "raised") =>
        \A e \in Engines : cls_next[eng[e].cls] = eng[e].window_type

\* C10: the accumulator of a PolynomialHash engine and every value returned by
\* an engine lie in 0 .. mod - 1, negative elements included.
HashInRange ==
    \A e \in Engines :
        /\ eng[e].cls = "PolynomialHash" => eng[e].hash \in 0..(eng[e].mod - 1)
        /\ \A i \in 1..Len(eng[e].out) : eng[e].out[i] \in 0..(eng[e].mod - 1)

HashOfNegativeWindow ==
    \E e \in Engines :
        /\ eng[e].cls = "PolynomialHash" /\ eng[e].window_type = "variable"
        /\ eng[e].calls = <<"update", "remove_old">>
        /\ eng[e].buffer # <<>> /\ \A i \in 1..Len(eng[e].buffer) : eng[e].buffer[i] < 0
        /\ eng[e].hash > 0 /\ Len(eng[e].out) >= 3

TailHash(self, k) == WindowHash(self, Len(iterable), k)

\* C12: once a filled variable window has used up the source, each __next__ at
\* observed size >= 2 calls remove_old once, lowers the size by one and returns
\* the aggregate of the remaining last elements; the __next__ at size 1 raises
\* StopIteration without remove_old; so draining returns window_size - 1 values.
DrainingSteps ==
    [][\A e \in Slots :
          LET self == eng[e]
              after == eng'[e]
          IN (self.status = "ok" /\ self.window_type = "variable"
                 /\ self.filled = "True" /\ ~HasNext(self) /\ after # self) =>
              /\ self.obs >= 2 =>
                    /\ after.calls = <<"update", "remove_old">>
                    /\ after.last = "Value"
                    /\ after.obs = self.obs - 1
                    /\ after.out = Append(self.out, TailHash(self, self.obs - 1))
                    /\ Len(after.out) = Len(iterable) + self.window_size - after.obs
              /\ self.obs = 1 =>
                    /\ after.calls = <<"update">>
                    /\ after.last = "Exhausted"
                    /\ after.obs = 1 /\ after.buffer = self.buffer
                    /\ after.out = self.out
                    /\ Len(after.out) = Len(iterable) + self.window_size - 1]_vars

DrainedToOne ==
    \E e \in Engines :
        /\ eng[e].cls = "Apply" /\ eng[e].window_type = "variable"
        /\ eng[e].window_size = 3 /\ eng[e].filled = "True"
        /\ eng[e].last = "Exhausted" /\ ~eng[e].again
        /\ Len(eng[e].out) = Len(iterable) + 2

\* C13: in a run of one engine per class, remove_old is only called after update
\* has found the source exhausted and with at least two elements in the window,
\* and no __next__ ends in a fault of the strategy.
RemoveOldOnlyWhenDraining ==
    [][\A e \in Slots :
          LET self == eng[e]
              after == eng'[e]
          IN (self.status = "ok" /\ after # self) =>
              /\ after.last \in {"Value", "Exhausted"}
              /\ (\E i \in 1..Len(after.calls) : after.calls[i] = "remove_old") =>
                    /\ after.calls = <<"update", "remove_old">>
                    /\ ~HasNext(self)
                    /\ self.obs >= 2 /\ Len(self.buffer) >= 2
                    /\ after.buffer # <<>>]_vars

LastRemoveOld ==
    \E e \in Engines :
        /\ eng[e].cls = "Apply" /\ eng[e].window_type = "variable"
        /\ eng[e].calls = <<"update", "remove_old">>
        /\ eng[e].obs = 1 /\ Len(eng[e].buffer) = 1

\* C14: for a variable window the observed size lies in 0..window_size and is
\* the length of the buffer, which never exceeds window_size; while the window
\* is filled and the source has not run out, the size is window_size.
ObservedCountBounds ==
    \A e \in Engines :
        LET self == eng[e]
        IN /\ Len(self.buffer) <= self.window_size
           /\ self.window_type = "variable" =>
                /\ self.obs \in 0..self.window_size
                /\ self.obs = Len(self.buffer)
                /\ (self.filled = "True" /\ self.last = "Value"
                        /\ self.calls \in {<<"add_new">>, <<"update">>})
                      => self.obs = self.window_size

SteadyWindow ==
    \E e \in Engines :
        /\ eng[e].window_type = "variable" /\ eng[e].filled = "True"
        /\ eng[e].calls = <<"update">> /\ eng[e].last = "Value"
        /\ eng[e].window_size >= 2 /\ eng[e].obs = eng[e].window_size
        /\ Len(iterable) > eng[e].window_size

\* the phase the latest __next__ call was in: 1 add_new, 2 successful update,
\* 3 remove_old, 4 StopIteration
Phase(self) ==
    IF self.last = "Exhausted" THEN 4
    ELSE IF self.calls = <<"update", "remove_old">> THEN 3
    ELSE IF self.calls = <<"update">> THEN 2
    ELSE 1

\* C15: a variable window goes through its phases forward only: add_new calls,
\* then successful updates, then remove_old calls, then StopIteration; the filled
\* flag is never cleared; the size never grows again once it has shrunk.
PhasesOnlyForward ==
    [][\A e \in Slots :
          LET self == eng[e]
              after == eng'[e]
          IN (self.status = "ok" /\ self.window_type = "variable") =>
              /\ Phase(after) >= Phase(self)
              /\ self.filled = "True" => after.filled = "True"
              /\ Phase(self) <= 2 => after.obs >= self.obs \/ Phase(after) = 3
              /\ Phase(self) >= 3 => /\ after.obs <= self.obs
                                     /\ after.iterator = self.iterator
              /\ Phase(after) = 2 => after.filled = "True"
              /\ Phase(after) = 3 => after.filled = "True"]_vars

AllPhasesDone ==
    \E e \in Engines :
        /\ eng[e].cls = "PolynomialHash" /\ eng[e].window_type = "variable"
        /\ eng[e].window_size >= 2 /\ Len(iterable) > eng[e].window_size
        /\ eng[e].filled = "True" /\ eng[e].last = "Exhausted"
        /\ Len(eng[e].out) = Len(iterable) + eng[e].window_size - 1

\* C16: a fixed window only ever calls update, every value it returns is over a
\* window of exactly window_size elements, and the first __next__ that finds the
\* source exhausted raises StopIteration with no value for a partial window.
FixedNeverDrains ==
    [][\A e \in Slots :
          LET self == eng[e]
              after == eng'[e]
          IN (self.status = "ok" /\ self.window_type = "fixed" /\ after # self) =>
              /\ after.calls = <<"update">>
              /\ after.last = "Value" =>
                    /\ Len(after.buffer) = self.window_size
                    /\ after.buffer = SubSeq(iterable,
                                             after.iterator - self.window_size + 1,
                                             after.iterator)
              /\ ~HasNext(self) => /\ after.last = "Exhausted"
                                   /\ after.out = self.out
                                   /\ after.buffer = self.buffer
              /\ Len(iterable) < self.window_size => after.out = <<>>]_vars

ShortFixedInput ==
    \E e \in Engines :
        /\ eng[e].window_type = "fixed" /\ eng[e].last = "Exhausted"
        /\ iterable # <<>> /\ Len(iterable) < eng[e].window_size
        /\ eng[e].out = <<>>

\* the most values an engine may return
MaxValues(self) ==
    IF self.window_type = "fixed" THEN Len(iterable)
    ELSE Len(iterable) + self.window_size - 1

\* C17: next() called again and again on an engine eventually raises
\* StopIteration, after at most len(input) values for a fixed window and at most
\* len(input) + window_size - 1 values for a variable window.
EventuallyExhausted ==
    /\ [](\A e \in Engines : Len(eng[e].out) <= MaxValues(eng[e]))
    /\ \A e \in Slots : (eng[e].status = "ok") ~> (eng[e].last = "Exhausted")

LongestRun ==
    \E e, o \in Engines :
        /\ e # o /\ eng[e].window_type = "fixed" /\ eng[e].window_size = 1
        /\ eng[e].last = "Exhausted" /\ eng[o].last = "Exhausted"
        /\ Len(iterable) >= 2
        /\ Len(eng[e].out) = Len(iterable) /\ Len(eng[o].out) = Len(iterable)

\* C18: the source is read once and in order: a __next__ takes at most one
\* element, exactly one (the next unread one, which becomes the newest of the
\* window) when it returns a filling or steady value, and none when it returns
\* a drain value or raises StopIteration.
SinglePassInOrder ==
    [][\A e \in Slots :
          LET self == eng[e]
              after == eng'[e]
          IN (self.status = "ok" /\ after # self) =>
              /\ after.iterator \in {self.iterator, self.iterator + 1}
              /\ (after.last = "Value" /\ after.calls \in {<<"add_new">>, <<"update">>}) =>
                    /\ after.iterator = self.iterator + 1
                    /\ after.buffer # <<>>
                    /\ after.buffer[Len(after.buffer)] = iterable[after.iterator]
                    /\ after.buffer = SubSeq(iterable,
                                             after.iterator - Len(after.buffer) + 1,
                                             after.iterator)
              /\ (after.last = "Exhausted" \/ after.calls = <<"update", "remove_old">>) =>
                    after.iterator = self.iterator]_vars

SourceReadToEnd ==
    \E e \in Engines :
        /\ eng[e].window_type = "fixed" /\ eng[e].window_size = 2
        /\ eng[e].last = "Value" /\ eng[e].iterator = Len(iterable)
        /\ Len(iterable) >= 3 /\ iterable[1] # iterable[2]

\* C19: a variable window over an input shorter than the window (but not
\* empty) returns the aggregates of the prefixes of the input, len(input) values,
\* and then raises StopIteration: it is never marked filled, never calls
\* remove_old, and its size stays at len(input).
ShortVariableInput ==
    \A e \in Engines :
        LET self == eng[e]
        IN (self.window_type = "variable" /\ Len(iterable) >= 1
                /\ Len(iterable) < self.window_size) =>
            /\ self.filled = "False"
            /\ self.calls \in {<<>>, <<"add_new">>}
            /\ self.last \in {"none", "Value", "Exhausted"}
            /\ Len(self.out) = self.obs /\ self.obs <= Len(iterable)
            /\ \A i \in 1..Len(self.out) :
                    self.out[i] = WindowHash(self, i, i)
            /\ self.last = "Exhausted" =>
                    /\ self.obs = Len(iterable)
                    /\ self.buffer = iterable

ShortVariableDone ==
    \E e \in Engines :
        /\ eng[e].window_type = "variable" /\ eng[e].last = "Exhausted"
        /\ eng[e].again /\ Len(iterable) = 2 /\ eng[e].window_size = 3
        /\ Len(eng[e].out) = 2 /\ eng[e].cls = "PolynomialHash"

====
